---- MODULE Spec2Model ----
(***************************************************************************)
(* The global-namespace engine of src/compiler/deno.ts: the identifier     *)
(* classifier (getGlobalsForName), the merge of a symbol table into the    *)
(* two global tables (mergeGlobalSymbolTable) and the combined view over   *)
(* nodeGlobals and globals (createNodeGlobalsSymbolTable); and the parser  *)
(* of package references (parseNpmPackageReference).                       *)
(*                                                                         *)
(* A string is a sequence of one-character strings; a symbol table (a JS   *)
(* Map) is a sequence of <<id, symbol>> entries in insertion order, with   *)
(* no identifier twice.                                                    *)
(***************************************************************************)
EXTENDS Integers, Sequences, FiniteSets, TLC

VARIABLES
  nodeGlobals,            \* the Alternate table (deno.ts:63)
  globals,                \* the Default table (deno.ts:62)
  isNodeSourceFile,       \* the injected predicate (deno.ts:5)
  nodeBuiltInModuleNames, \* the built-in module name set (deno.ts:6)
  calls,                  \* history: the arguments of the last two setNodeBuiltInModuleNames calls
  iters,                  \* the generator objects getEntries has handed out
  last,                   \* history: the call just made on the tables, with the tables it found
  npm                     \* a specifier text and what the two parse functions completed with

vars == <<nodeGlobals, globals, isNodeSourceFile, nodeBuiltInModuleNames, calls, iters, last, npm>>

progVars == <<nodeGlobals, globals, isNodeSourceFile, nodeBuiltInModuleNames>>

----------------------------------------------------------------------------
(* Bounds *)

NumNames == 3
MaxNamesLen == 2

----------------------------------------------------------------------------
(* Strings *)

Range(s) == {s[i] : i \in 1..Len(s)}

Min(a, b) == IF a < b THEN a ELSE b

Q == "\""

\* String.prototype.startsWith
StartsWith(s, prefix) ==
  /\ Len(s) >= Len(prefix)
  /\ SubSeq(s, 1, Len(prefix)) = prefix

\* String.prototype.slice(start, end) for start >= 0 and end < 0 (0-based, end counted from the back)
SliceFromTo(s, start, negEnd) == SubSeq(s, start + 1, Len(s) + negEnd)

\* the characters the regular expression's dot does not match
LineTerminators == {"\n", "\r"}

\* the type checker's pattern for quoted module names: /^".+"$/
ambientModuleSymbolRegex(id) ==
  /\ Len(id) >= 3
  /\ id[1] = Q
  /\ id[Len(id)] = Q
  /\ \A i \in 2..(Len(id) - 1) : id[i] \notin LineTerminators

nodeOnlyGlobalNames == {
    <<"N","o","d","e","R","e","q","u","i","r","e">>,
    <<"R","e","q","u","i","r","e","R","e","s","o","l","v","e">>,
    <<"R","e","q","u","i","r","e","R","e","s","o","l","v","e">>,
    <<"p","r","o","c","e","s","s">>,
    <<"c","o","n","s","o","l","e">>,
    <<"_","_","f","i","l","e","n","a","m","e">>,
    <<"_","_","d","i","r","n","a","m","e">>,
    <<"r","e","q","u","i","r","e">>,
    <<"m","o","d","u","l","e">>,
    <<"e","x","p","o","r","t","s">>,
    <<"g","c">>,
    <<"B","u","f","f","e","r","E","n","c","o","d","i","n","g">>,
    <<"B","u","f","f","e","r","C","o","n","s","t","r","u","c","t","o","r">>,
    <<"W","i","t","h","I","m","p","l","i","c","i","t","C","o","e","r","c","i","o","n">>,
    <<"B","u","f","f","e","r">>,
    <<"C","o","n","s","o","l","e">>,
    <<"I","m","p","o","r","t","M","e","t","a">>,
    <<"s","e","t","T","i","m","e","o","u","t">>,
    <<"s","e","t","I","n","t","e","r","v","a","l">>,
    <<"s","e","t","I","m","m","e","d","i","a","t","e">>,
    <<"G","l","o","b","a","l">>,
    <<"A","b","o","r","t","C","o","n","t","r","o","l","l","e","r">>,
    <<"A","b","o","r","t","S","i","g","n","a","l">>,
    <<"B","l","o","b">>,
    <<"B","r","o","a","d","c","a","s","t","C","h","a","n","n","e","l">>,
    <<"M","e","s","s","a","g","e","C","h","a","n","n","e","l">>,
    <<"M","e","s","s","a","g","e","P","o","r","t">>,
    <<"E","v","e","n","t">>,
    <<"E","v","e","n","t","T","a","r","g","e","t">>,
    <<"p","e","r","f","o","r","m","a","n","c","e">>,
    <<"T","e","x","t","D","e","c","o","d","e","r">>,
    <<"T","e","x","t","E","n","c","o","d","e","r">>,
    <<"U","R","L">>,
    <<"U","R","L","S","e","a","r","c","h","P","a","r","a","m","s">>
}

ignoredGlobalNames == {
    <<"O","b","j","e","c","t">>,
    <<"F","u","n","c","t","i","o","n">>,
    <<"C","a","l","l","a","b","l","e","F","u","n","c","t","i","o","n">>,
    <<"N","e","w","a","b","l","e","F","u","n","c","t","i","o","n">>,
    <<"A","r","r","a","y">>,
    <<"R","e","a","d","o","n","l","y","A","r","r","a","y">>,
    <<"S","t","r","i","n","g">>,
    <<"N","u","m","b","e","r">>,
    <<"B","o","o","l","e","a","n">>,
    <<"R","e","g","E","x","p","r">>,
    <<"T","h","i","s","T","y","p","e">>,
    <<"N","o","n","N","u","l","l","a","b","l","e">>,
    <<"I","n","t","8","A","r","r","a","y">>,
    <<"U","i","n","t","8","C","l","a","m","p","e","d","A","r","r","a","y">>,
    <<"I","n","t","1","6","A","r","r","a","y">>,
    <<"U","i","n","t","1","6","A","r","r","a","y">>,
    <<"I","n","t","3","2","A","r","r","a","y">>,
    <<"F","l","o","a","t","3","2","A","r","r","a","y">>,
    <<"F","l","o","a","t","6","4","A","r","r","a","y">>,
    <<"B","i","g","I","n","t","6","4","A","r","r","a","y">>,
    <<"B","i","g","U","i","n","t","6","4","A","r","r","a","y">>
}

----------------------------------------------------------------------------
(* Identifiers and module names the model draws from *)

id_Buffer == <<"B","u","f","f","e","r">>
id_process == <<"p","r","o","c","e","s","s">>
id_require == <<"r","e","q","u","i","r","e">>
id_Array == <<"A","r","r","a","y">>
id_Object == <<"O","b","j","e","c","t">>
id_quotedFs == <<Q,"f","s",Q>>
id_quotedNodeFs == <<Q,"n","o","d","e",":","f","s",Q>>
id_quotedNodeFS == <<Q,"n","o","d","e",":","F","S",Q>>
id_quotedNodePath == <<Q,"n","o","d","e",":","p","a","t","h",Q>>
id_quotedNodeColon == <<Q,"n","o","d","e",":",Q>>

name_fs == <<"f","s">>
name_FS == <<"F","S">>
name_path == <<"p","a","t","h">>
name_empty == <<>>

TypedArrayNames == {
    <<"I","n","t","8","A","r","r","a","y">>,
    <<"U","i","n","t","8","A","r","r","a","y">>,
    <<"U","i","n","t","8","C","l","a","m","p","e","d","A","r","r","a","y">>,
    <<"I","n","t","1","6","A","r","r","a","y">>,
    <<"U","i","n","t","1","6","A","r","r","a","y">>,
    <<"I","n","t","3","2","A","r","r","a","y">>,
    <<"U","i","n","t","3","2","A","r","r","a","y">>,
    <<"F","l","o","a","t","3","2","A","r","r","a","y">>,
    <<"F","l","o","a","t","6","4","A","r","r","a","y">>,
    <<"B","i","g","I","n","t","6","4","A","r","r","a","y">>,
    <<"B","i","g","U","i","n","t","6","4","A","r","r","a","y">>
}

\* identifiers that exercise every branch of the classifier
EdgeIds == {
    id_quotedFs, id_quotedNodeFs, id_quotedNodeFS, id_quotedNodePath, id_quotedNodeColon,
    <<Q,"n","o","d","e",":","f","s","/","p",Q>>,
    <<Q,"N","O","D","E",":","f","s",Q>>,
    <<Q,"n","o","d","e","f","s",Q>>,
    <<Q," ","n","o","d","e",":","f","s",Q>>,
    <<Q,"n","o","d","e",":","f","s">>,
    <<"n","o","d","e",":","f","s",Q>>,
    <<"n","o","d","e",":","f","s">>,
    <<Q,"n","o","d","e",":","f",Q>>,
    <<Q,"n","o","d","e",":","f","s",Q,Q>>,
    <<Q,"B","u","f","f","e","r",Q>>,
    <<Q,"A","r","r","a","y",Q>>,
    <<Q,"\n",Q>>,
    <<Q,"n","o","d","e",":","\n",Q>>,
    <<Q,Q>>, <<Q>>, <<Q,Q,Q>>, <<>>,
    <<"b","u","f","f","e","r">>,
    <<"f","s">>
}

ClassifyIds == nodeOnlyGlobalNames \cup ignoredGlobalNames \cup TypedArrayNames \cup EdgeIds

NameUniverse == <<name_fs, name_FS, name_empty, name_path>>

BuiltInNameChoices == {NameUniverse[i] : i \in 1..Min(NumNames, Len(NameUniverse))}

RECURSIVE SeqsUpTo(_, _)
SeqsUpTo(S, n) ==
  IF n = 0 THEN {<<>>}
  ELSE LET shorter == SeqsUpTo(S, n - 1)
       IN shorter \cup {Append(s, x) : s \in {t \in shorter : Len(t) = n - 1}, x \in S}

\* the arrays setNodeBuiltInModuleNames is called with
NamesArgs == SeqsUpTo(BuiltInNameChoices, MaxNamesLen)

----------------------------------------------------------------------------
(* Module-level configuration: deno.ts:5-14 *)

SourceFiles == {"node.d.ts", "lib.d.ts"}

\* the callbacks setIsNodeSourceFileCallback can be given
Callbacks == [SourceFiles -> BOOLEAN]

\* a variant whose initial predicate answers true
DefaultCallbackMutantTrue == [configured |-> FALSE, answer |-> [f \in SourceFiles |-> TRUE]]

\* let isNodeSourceFile = () => false: a function object of its own, distinct
\* from every callback installed later
DefaultCallback == [configured |-> FALSE, answer |-> [f \in SourceFiles |-> FALSE]]

setIsNodeSourceFileCallback(callback) ==
  /\ isNodeSourceFile' = [configured |-> TRUE, answer |-> callback]
  /\ UNCHANGED <<nodeGlobals, globals, nodeBuiltInModuleNames>>

\* a variant that adds the names to the set it finds
SetOfMutantAdditive(names) == nodeBuiltInModuleNames \cup Range(names)

\* new Set(names)
SetOf(names) == Range(names)

setNodeBuiltInModuleNames(names) ==
  /\ nodeBuiltInModuleNames' = SetOf(names)
  /\ UNCHANGED <<nodeGlobals, globals, isNodeSourceFile>>

----------------------------------------------------------------------------
(* The classifier: deno.ts:84-98, and its earlier variant part_000:68-74 *)

NodePrefix == <<Q, "n", "o", "d", "e", ":">>

\* a variant that takes no ambient identifier for a built-in module
getGlobalsForNameMutantNoBuiltIns(id) ==
  IF ambientModuleSymbolRegex(id)
  THEN "nodeGlobals"
  ELSE IF id \in nodeOnlyGlobalNames THEN "nodeGlobals" ELSE "globals"

\* a variant that slices without dropping the closing quote: slice(6)
getGlobalsForNameMutantKeepsQuote(id) ==
  IF ambientModuleSymbolRegex(id)
  THEN IF StartsWith(id, NodePrefix) /\ SubSeq(id, 7, Len(id)) \in nodeBuiltInModuleNames
       THEN "globals"
       ELSE "nodeGlobals"
  ELSE IF id \in nodeOnlyGlobalNames THEN "nodeGlobals" ELSE "globals"

getGlobalsForName(id) ==
  IF ambientModuleSymbolRegex(id)
  THEN IF StartsWith(id, NodePrefix) /\ SliceFromTo(id, 6, -1) \in nodeBuiltInModuleNames
       THEN "globals"
       ELSE "nodeGlobals"
  ELSE IF id \in nodeOnlyGlobalNames THEN "nodeGlobals" ELSE "globals"

DenoContext_isAllowedNodeGlobalName(id) == id \notin ignoredGlobalNames

DenoContext_getGlobalsForName(id) ==
  IF DenoContext_isAllowedNodeGlobalName(id) THEN "nodeGlobals" ELSE "globals"

----------------------------------------------------------------------------
(* Symbols and symbol tables *)

MaxSourceLen == 2
MaxMerges == 1

\* what Map.get gives for an absent key
Undefined == <<"undefined">>

\* a symbol the type checker hands in
Sym(n) == <<"sym", n>>

\* the symbols written to the tables directly
Symbols == {Sym(1), Sym(2)}

\* the symbols of the source tables of mergeGlobalSymbolTable
IncomingSymbols == {Sym(2)}

\* the injected merger: an uninterpreted function of its three arguments
mergeSymbol(target, source, unidirectional) ==
  <<"merge", target, source, unidirectional>>

\* the number of mergeSymbol calls a symbol is the result of
RECURSIVE MergeCount(_)
MergeCount(symbol) ==
  IF symbol[1] = "merge"
  THEN 1 + MergeCount(symbol[2]) + MergeCount(symbol[3])
  ELSE 0

RECURSIVE MergesIn(_)
MergesIn(table) ==
  IF table = <<>> THEN 0 ELSE MergeCount(Head(table)[2]) + MergesIn(Tail(table))

Keys(table) == {table[i][1] : i \in 1..Len(table)}

\* Map.prototype.has
MapHas(table, key) == \E i \in 1..Len(table) : table[i][1] = key

\* Map.prototype.get
MapGet(table, key) ==
  IF MapHas(table, key)
  THEN table[CHOOSE i \in 1..Len(table) : table[i][1] = key][2]
  ELSE Undefined

\* a variant that leaves the written entry alone in the table
MapSetMutantDropsOthers(table, key, value) == <<<<key, value>>>>

\* Map.prototype.set: an existing key keeps its place, a new key goes last
MapSet(table, key, value) ==
  IF MapHas(table, key)
  THEN [i \in 1..Len(table) |-> IF table[i][1] = key THEN <<key, value>> ELSE table[i]]
  ELSE Append(table, <<key, value>>)

\* Map.prototype.delete
MapDelete(table, key) == SelectSeq(table, LAMBDA e : e[1] # key)

\* a value is truthy unless it is undefined (symbols are objects)
Truthy(value) == value # Undefined

\* a ?? b
NullishCoalesce(a, b) == IF a = Undefined THEN b ELSE a

----------------------------------------------------------------------------
(* Nodes and their source files *)

UndefinedNode == "undefined"

Nodes == {"node.d.ts", "lib.d.ts/decl", "detached"}

NodeParent(node) ==
  IF node = "lib.d.ts/decl" THEN "lib.d.ts" ELSE UndefinedNode

\* walks the parents up to the SourceFile node; undefined when there is none
RECURSIVE getSourceFileOfNode(_)
getSourceFileOfNode(node) ==
  IF node # UndefinedNode /\ node \notin SourceFiles
  THEN getSourceFileOfNode(NodeParent(node))
  ELSE node

hasNodeSourceFile(node) ==
  IF node = UndefinedNode THEN FALSE
  ELSE LET sourceFile == getSourceFileOfNode(node)
       IN isNodeSourceFile.answer[sourceFile]

----------------------------------------------------------------------------
(* mergeGlobalSymbolTable: deno.ts:100-108 *)

\* variants that leave out one of the two conditions
TargetOfMutantIgnoresFile(isNodeFile, id) == getGlobalsForName(id)

TargetOfMutantIgnoresName(isNodeFile, id) == IF isNodeFile THEN "nodeGlobals" ELSE "globals"

\* the table one entry of the source is written to
TargetOf(isNodeFile, id) == IF isNodeFile THEN getGlobalsForName(id) ELSE "globals"

\* a variant that hands mergeSymbol the incoming symbol first
MergeEntryMutantSwapsArguments(tabs, isNodeFile, entry, unidirectional) ==
  LET id == entry[1]
      sourceSymbol == entry[2]
      target == TargetOf(isNodeFile, id)
      targetSymbol == MapGet(tabs[target], id)
  IN [tabs EXCEPT ![target] =
        MapSet(@, id, IF Truthy(targetSymbol)
                      THEN mergeSymbol(sourceSymbol, targetSymbol, unidirectional)
                      ELSE sourceSymbol)]

\* the callback of source.forEach, on the pair of tables
MergeEntry(tabs, isNodeFile, entry, unidirectional) ==
  LET id == entry[1]
      sourceSymbol == entry[2]
      target == TargetOf(isNodeFile, id)
      targetSymbol == MapGet(tabs[target], id)
  IN [tabs EXCEPT ![target] =
        MapSet(@, id, IF Truthy(targetSymbol)
                      THEN mergeSymbol(targetSymbol, sourceSymbol, unidirectional)
                      ELSE sourceSymbol)]

\* source.forEach(...), in the source table's order
RECURSIVE MergeAll(_, _, _, _)
MergeAll(tabs, isNodeFile, source, unidirectional) ==
  IF source = <<>> THEN tabs
  ELSE MergeAll(MergeEntry(tabs, isNodeFile, Head(source), unidirectional),
                isNodeFile, Tail(source), unidirectional)

\* unidirectional = false: the default of the omitted parameter
DefaultFalse(unidirectional) ==
  IF unidirectional = "omitted" THEN FALSE ELSE unidirectional = "true"

Tables == [nodeGlobals |-> nodeGlobals, globals |-> globals]

MergeResult(node, source, unidirectional) ==
  LET sourceFile == getSourceFileOfNode(node)
      isNodeFile == hasNodeSourceFile(sourceFile)
  IN MergeAll(Tables, isNodeFile, source, DefaultFalse(unidirectional))

WithinBounds(tabs) ==
  MergesIn(tabs.nodeGlobals) + MergesIn(tabs.globals) <= MaxMerges

mergeGlobalSymbolTable(node, source, unidirectional) ==
  \E result \in {MergeResult(node, source, unidirectional)} :
     /\ WithinBounds(result)
     /\ nodeGlobals' = result.nodeGlobals
     /\ globals' = result.globals
     /\ UNCHANGED <<isNodeSourceFile, nodeBuiltInModuleNames>>

\* a direct write to one of the backing tables by their owner, the type checker
SymbolTable_set(which, id, symbol) ==
  \E result \in {[Tables EXCEPT ![which] = MapSet(@, id, symbol)]} :
     /\ WithinBounds(result)
     /\ nodeGlobals' = result.nodeGlobals
     /\ globals' = result.globals
     /\ UNCHANGED <<isNodeSourceFile, nodeBuiltInModuleNames>>

SymbolTable_delete(which, id) ==
  \E result \in {[Tables EXCEPT ![which] = MapDelete(@, id)]} :
     /\ MapHas(Tables[which], id)
     /\ nodeGlobals' = result.nodeGlobals
     /\ globals' = result.globals
     /\ UNCHANGED <<isNodeSourceFile, nodeBuiltInModuleNames>>

\* the identifiers the tables of the model hold
TableIds == {id_Buffer, id_quotedNodeFs}

RECURSIVE TablesUpTo(_, _, _)
\* every table of at most n entries over the identifiers ids with values from values
TablesUpTo(ids, values, n) ==
  IF n = 0 THEN {<<>>}
  ELSE LET shorter == TablesUpTo(ids, values, n - 1)
       IN shorter \cup
          {Append(t, <<id, v>>) : t \in {s \in shorter : Len(s) = n - 1},
                                   id \in ids, v \in values}

UniqueKeys(table) == \A i, j \in 1..Len(table) : table[i][1] = table[j][1] => i = j

\* the source tables mergeGlobalSymbolTable is called with
SourceTables == {t \in TablesUpTo(TableIds, IncomingSymbols, MaxSourceLen) : UniqueKeys(t)}

----------------------------------------------------------------------------
(* The combined view: deno.ts:110-188 *)

MaxEnumLen == 2
MaxIters == 1
MaxRestarts == 2
MaxDoneAnswers == 2

\* a variant that prefers the Default table
combinedGlobals_getMutantDefaultFirst(key) ==
  NullishCoalesce(MapGet(globals, key), MapGet(nodeGlobals, key))

\* prop === "get"
combinedGlobals_get(key) ==
  NullishCoalesce(MapGet(nodeGlobals, key), MapGet(globals, key))

\* prop === "has"
combinedGlobals_has(key) == MapHas(nodeGlobals, key) \/ MapHas(globals, key)

\* a variant that enumerates globals first
TablesArrayMutantDefaultFirst(tabs) == <<tabs.globals, tabs.nodeGlobals>>

\* [nodeGlobals.entries(), globals.entries()]
TablesArray(tabs) == <<tabs.nodeGlobals, tabs.globals>>

\* a variant whose generators share one set of found keys
getEntriesMutantSharedFoundKeys(transform) ==
  [pc |-> "start", t |-> 1, pos |-> 0, next |-> <<>>,
   foundKeys |-> UNION {iters[i].gen.foundKeys : i \in DOMAIN iters},
   transform |-> transform]

\* the generator object getEntries(transform) returns; its body has not run yet
getEntries(transform) ==
  [pc |-> "start", t |-> 1, pos |-> 0, next |-> <<>>, foundKeys |-> {},
   transform |-> transform]

\* the two nested loops of the generator, from entry pos of table t up to the
\* next yield or to the end
RECURSIVE GenRun(_, _)
GenRun(gen, tabs) ==
  IF gen.t > Len(TablesArray(tabs))
  THEN [gen |-> [gen EXCEPT !.pc = "done"], done |-> TRUE, value |-> Undefined]
  ELSE LET entries == TablesArray(tabs)[gen.t]
       IN IF gen.pos > Len(entries)
          THEN GenRun([gen EXCEPT !.t = @ + 1, !.pos = 1], tabs)
          ELSE IF entries[gen.pos][1] \in gen.foundKeys
               THEN GenRun([gen EXCEPT !.pos = @ + 1], tabs)
               ELSE [gen |-> [gen EXCEPT !.pc = "yield", !.next = entries[gen.pos]],
                     done |-> FALSE, value |-> entries[gen.pos]]

\* a variant that never records a yielded key
GeneratorNextMutantNoFoundKeys(gen, tabs) ==
  CASE gen.pc = "done" -> [gen |-> gen, done |-> TRUE, value |-> Undefined]
    [] gen.pc = "start" -> GenRun([gen EXCEPT !.t = 1, !.pos = 1], tabs)
    [] gen.pc = "yield" -> GenRun([gen EXCEPT !.pos = @ + 1], tabs)

\* one next() of the generator: the entry handed to transform, or done
GeneratorNext(gen, tabs) ==
  CASE gen.pc = "done" -> [gen |-> gen, done |-> TRUE, value |-> Undefined]
    [] gen.pc = "start" -> GenRun([gen EXCEPT !.t = 1, !.pos = 1], tabs)
    [] gen.pc = "yield" ->
         GenRun([gen EXCEPT !.foundKeys = @ \cup {gen.next[1]}, !.pos = @ + 1], tabs)

\* the transforms of entries(), keys(), values() and forEachEntry
Transform(transform, kv) ==
  CASE transform = "entries" -> kv
    [] transform = "keys" -> kv[1]
    [] transform = "values" -> kv[2]
    [] transform = "action" -> Undefined

\* while (!iterator.next().done) {}: the entries transform was called with, in order
RECURSIVE Drain(_, _)
Drain(gen, tabs) ==
  LET r == GeneratorNext(gen, tabs)
  IN IF r.done THEN <<>> ELSE <<r.value>> \o Drain(r.gen, tabs)

\* the calls of action that forEachEntry(action) makes
forEachEntry(tabs) == Drain(getEntries("action"), tabs)

\* prop === "size": i++ once per call of the action
combinedGlobals_size == Len(forEachEntry(Tables))

\* an iterator handed out and what it has answered: a generator object of
\* getEntries, or the iterator of the array made for Symbol.iterator
GeneratorObject(gen) ==
  [kind |-> "generator", gen |-> gen, array |-> <<>>, index |-> 0,
   yielded |-> <<>>, done |-> FALSE, doneAnswers |-> 0]

ArrayIterator(gen, array) ==
  [kind |-> "array", gen |-> gen, array |-> array, index |-> 0,
   yielded |-> <<>>, done |-> FALSE, doneAnswers |-> 0]

\* entries(), keys() or values() of the view: a new generator object
combinedGlobals_entries(transform) ==
  /\ iters' = Append(iters, GeneratorObject(getEntries(transform)))
  /\ UNCHANGED progVars

\* arrayFrom(iterator): the values of the iterator, taken to its end
arrayFrom(gen, tabs) ==
  LET entries == Drain(gen, tabs)
  IN [i \in 1..Len(entries) |-> Transform(gen.transform, entries[i])]

\* a variant that hands arrayFrom the generator of keys()
SymbolIterator_getEntriesMutantKeys == getEntries("keys")

\* getEntries(kv => kv), for Symbol.iterator
SymbolIterator_getEntries == getEntries("entries")

\* prop === Symbol.iterator: the generator is run to its end at once, and the
\* iterator of the array is handed out
combinedGlobals_iterator ==
  /\ iters' = Append(iters, ArrayIterator([SymbolIterator_getEntries EXCEPT !.pc = "done"],
                                           arrayFrom(SymbolIterator_getEntries, Tables)))
  /\ UNCHANGED progVars

\* next() of an array's iterator
ArrayIterator_next(it) ==
  IF it.index < Len(it.array)
  THEN [it EXCEPT !.index = @ + 1, !.yielded = Append(@, it.array[it.index + 1])]
  ELSE [it EXCEPT !.done = TRUE, !.doneAnswers = @ + 1]

\* next() of a generator object
GeneratorObject_next(it) ==
  LET r == GeneratorNext(it.gen, Tables)
  IN IF r.done
     THEN [it EXCEPT !.gen = r.gen, !.done = TRUE, !.doneAnswers = @ + 1]
     ELSE [it EXCEPT !.gen = r.gen,
                     !.yielded = Append(@, Transform(it.gen.transform, r.value))]

\* next() on the i-th iterator handed out
Iterator_next(i) ==
  /\ iters[i].doneAnswers < MaxDoneAnswers
  /\ iters' = [iters EXCEPT ![i] = IF iters[i].kind = "array"
                                   THEN ArrayIterator_next(iters[i])
                                   ELSE GeneratorObject_next(iters[i])]
  /\ UNCHANGED progVars

\* prop === "forEach": the argument lists of the calls of action, in order
combinedGlobals_forEach(tabs) ==
  LET entries == forEachEntry(tabs)
  IN [i \in 1..Len(entries) |-> <<entries[i][2], entries[i][1]>>]

\* the identifiers of enumerated tables
EnumIds == {id_Buffer, id_Array, id_quotedNodeFs}

IdNumber(id) == CHOOSE n \in 1..3 : <<id_Buffer, id_Array, id_quotedNodeFs>>[n] = id

\* the symbol a table holds for an identifier: one of its own per table and identifier
SymbolOf(which, id) == Sym(IF which = "nodeGlobals" THEN IdNumber(id) ELSE 3 + IdNumber(id))

\* every order of at most n distinct identifiers
RECURSIVE OrdersUpTo(_, _)
OrdersUpTo(ids, n) ==
  IF n = 0 THEN {<<>>}
  ELSE LET shorter == OrdersUpTo(ids, n - 1)
       IN shorter \cup {Append(s, id) : s \in {t \in shorter : Len(t) = n - 1},
                                       id \in ids}

EnumTables(which) ==
  {[i \in 1..Len(order) |-> <<order[i], SymbolOf(which, order[i])>>] :
     order \in {o \in OrdersUpTo(EnumIds, MaxEnumLen) : \A i, j \in 1..Len(o) : o[i] = o[j] => i = j}}

\* the symbols written through the view
ViewSymbols == {Sym(7)}

\* a method of Map.prototype applied to the table which: the tables after the
\* call and the value the call returns (set returns the map it was applied to)
Map_apply(tabs, which, prop, args) ==
  CASE prop = "set" ->
         [tabs |-> [tabs EXCEPT ![which] = MapSet(@, args[1], args[2])],
          returned |-> <<"ref", which>>]
    [] prop = "delete" ->
         [tabs |-> [tabs EXCEPT ![which] = MapDelete(@, args[1])],
          returned |-> <<"boolean", IF MapHas(tabs[which], args[1]) THEN "true" ELSE "false">>]
    [] prop = "clear" ->
         [tabs |-> [tabs EXCEPT ![which] = <<>>],
          returned |-> Undefined]

\* a variant that applies the method to the Alternate table
ThisArgOfMutantAlternate(this) == IF this = "combinedGlobals" THEN "nodeGlobals" ELSE this

\* this === receiver ? target : this, the receiver being the view and the
\* target the Default table
ThisArgOf(this) == IF this = "combinedGlobals" THEN "globals" ELSE this

\* the function the get trap returns for any other property: value.apply(..., args)
combinedGlobals_default(prop, this, args) == Map_apply(Tables, ThisArgOf(this), prop, args)

\* combinedGlobals[prop](...args), prop none of the intercepted ones
combinedGlobals_call(prop, args) ==
  \E result \in {combinedGlobals_default(prop, "combinedGlobals", args)} :
     /\ nodeGlobals' = result.tabs.nodeGlobals
     /\ globals' = result.tabs.globals
     /\ UNCHANGED <<isNodeSourceFile, nodeBuiltInModuleNames>>

----------------------------------------------------------------------------
(* Package references: deno.ts:191-232 *)

MaxTextLen == 8

Max(S) == CHOOSE x \in S : \A y \in S : y <= x

\* String.prototype.lastIndexOf for a one-character needle: 0-based, -1 when absent
LastIndexOf(str, c) ==
  LET found == {i \in 1..Len(str) : str[i] = c}
  IN IF found = {} THEN -1 ELSE Max(found) - 1

\* String.prototype.substring(start, end) and substring(start), 0-based
Substring(str, start, end) == SubSeq(str, start + 1, end)

SubstringFrom(str, start) == SubSeq(str, start + 1, Len(str))

\* String.prototype.split for a one-character separator: never an empty array
RECURSIVE Split(_, _)
Split(str, sep) ==
  LET found == {i \in 1..Len(str) : str[i] = sep}
  IN IF found = {} THEN <<str>>
     ELSE LET i == CHOOSE k \in found : \A j \in found : k <= j
          IN <<SubSeq(str, 1, i - 1)>> \o Split(SubSeq(str, i + 1, Len(str)), sep)

\* Array.prototype.join
RECURSIVE Join(_, _)
Join(parts, sep) ==
  IF parts = <<>> THEN <<>>
  ELSE IF Len(parts) = 1 THEN parts[1]
  ELSE parts[1] \o <<sep>> \o Join(Tail(parts), sep)

\* Array.prototype.slice(start, end), 0 <= start <= end
ArraySlice(parts, start, end) == SubSeq(parts, start + 1, Min(end, Len(parts)))

\* Array.prototype.slice(start)
ArraySliceFrom(parts, start) == SubSeq(parts, start + 1, Len(parts))

NpmPrefix == <<"n","p","m",":">>

\* how a call completes: it returns an NpmPackageReference or undefined, or it
\* throws an Error with a message (the text after the colon left out)
Returned(name, versionReq, subPath) ==
  [kind |-> "return", value |-> "object", message |-> Undefined,
   name |-> name, versionReq |-> versionReq, subPath |-> subPath]

ReturnedUndefined ==
  [kind |-> "return", value |-> "undefined", message |-> Undefined,
   name |-> Undefined, versionReq |-> Undefined, subPath |-> Undefined]

Thrown(message) ==
  [kind |-> "throw", value |-> "undefined", message |-> message,
   name |-> Undefined, versionReq |-> Undefined, subPath |-> Undefined]

NotCalled ==
  [kind |-> "none", value |-> "undefined", message |-> Undefined,
   name |-> Undefined, versionReq |-> Undefined, subPath |-> Undefined]

\* a variant that strips every slash after the prefix
StripPrefixMutantAllSlashes(text) ==
  LET rest == SubstringFrom(text, Len(NpmPrefix))
      kept == {i \in 1..Len(rest) : rest[i] # "/"}
  IN IF ~StartsWith(text, NpmPrefix) THEN text
     ELSE IF kept = {} THEN <<>>
     ELSE SubstringFrom(rest, (CHOOSE k \in kept : \A j \in kept : k <= j) - 1)

\* text.replace(/^npm:\/?/, "")
StripPrefix(text) ==
  IF ~StartsWith(text, NpmPrefix) THEN text
  ELSE IF Len(text) > Len(NpmPrefix) /\ text[Len(NpmPrefix) + 1] = "/"
       THEN SubstringFrom(text, Len(NpmPrefix) + 1)
       ELSE SubstringFrom(text, Len(NpmPrefix))

\* a variant that takes every package for unscoped
namePartLenMutantUnscoped(text) == 1

\* text.startsWith("@") ? 2 : 1
namePartLen(text) == IF StartsWith(text, <<"@">>) THEN 2 ELSE 1

\* a variant that takes an "@" at position 0 for the version separator
HasVersionMutantFromZero(lastAtIndex) == lastAtIndex >= 0

\* lastAtIndex > 0
HasVersion(lastAtIndex) == lastAtIndex > 0

parseNpmPackageReference(original) ==
  IF ~StartsWith(original, NpmPrefix)
  THEN Thrown("Not an npm specifier")
  ELSE LET text == StripPrefix(original)
           parts == Split(text, "/")
       IN IF Len(parts) < namePartLen(text)
          THEN Thrown("Not a valid package")
          ELSE LET sliced == ArraySlice(parts, 0, namePartLen(text))
                   lastNamePart == sliced[Len(sliced)]
                   lastAtIndex == LastIndexOf(lastNamePart, "@")
                   versionReq == IF HasVersion(lastAtIndex)
                                 THEN SubstringFrom(lastNamePart, lastAtIndex + 1)
                                 ELSE Undefined
                   nameParts == IF HasVersion(lastAtIndex)
                                THEN [sliced EXCEPT ![Len(sliced)] =
                                        Substring(lastNamePart, 0, lastAtIndex)]
                                ELSE sliced
                   name == Join(nameParts, "/")
               IN IF Len(name) = 0
                  THEN Thrown("Npm specifier did not have a name")
                  ELSE Returned(name, versionReq,
                                IF Len(parts) > Len(nameParts)
                                THEN Join(ArraySliceFrom(parts, Len(nameParts)), "/")
                                ELSE Undefined)

\* a variant whose catch lets the error of an empty name through
tryParseNpmPackageReferenceMutantRethrows(text) ==
  LET completion == parseNpmPackageReference(text)
  IN IF completion.kind = "throw" /\ completion.message # "Npm specifier did not have a name"
     THEN ReturnedUndefined
     ELSE completion

\* try { return parseNpmPackageReference(text); } catch { return undefined; }
tryParseNpmPackageReference(text) ==
  LET completion == parseNpmPackageReference(text)
  IN IF completion.kind = "throw" THEN ReturnedUndefined ELSE completion

\* the texts the functions are called with: "npm:" followed by every string of
\* at most MaxTextLen characters of the alphabet, short strings with and
\* without a prefix close to "npm:", and the specifiers of the documentation
NpmAlphabet == {"a", "@", "/"}

NearPrefixes == {<<>>, <<"n","p","m">>, <<"N","p","m",":">>, <<"x","n","p","m",":">>}

text_lodash == <<"n","p","m",":","l","o","d","a","s","h","@","4",".","1","7",".","2","1","/","f","p">>
text_angular == <<"n","p","m",":","@","a","n","g","u","l","a","r","/","c","o","r","e","@","1","5",".","0",".","0">>
text_leftPad == <<"n","p","m",":","l","e","f","t","-","p","a","d">>
text_bare == <<"l","e","f","t","-","p","a","d">>
text_scope == <<"n","p","m",":","@","s","c","o","p","e">>
text_full == <<"n","p","m",":","/","@","a","/","b","@","1","/","c","@","d","/","e">>

ExampleTexts == {text_lodash, text_angular, text_leftPad, text_bare, text_scope, text_full}

Texts ==
  {NpmPrefix \o body : body \in SeqsUpTo(NpmAlphabet, MaxTextLen)}
    \cup {prefix \o body : prefix \in NearPrefixes, body \in SeqsUpTo(NpmAlphabet, 2)}
    \cup ExampleTexts

----------------------------------------------------------------------------
(* Specifications *)

NoCall == [op |-> "none"]

NoText == [text |-> <<>>, parse |-> NotCalled, tryParse |-> NotCalled]

Init ==
  /\ nodeGlobals = <<>>
  /\ globals = <<>>
  /\ isNodeSourceFile = DefaultCallback
  /\ nodeBuiltInModuleNames = {}
  /\ calls = <<>>
  /\ iters = <<>>
  /\ last = NoCall
  /\ npm = NoText

\* the configuration on its own: every sequence of setNodeBuiltInModuleNames
\* calls; calls keeps the arguments of the latest call and of the one before
ConfigureNames ==
  \E names \in NamesArgs :
    /\ setNodeBuiltInModuleNames(names)
    /\ calls' = IF calls = <<>> THEN <<names>> ELSE <<calls[Len(calls)], names>>
    /\ UNCHANGED <<iters, last, npm>>

NextClassify == ConfigureNames

SpecClassify == Init /\ [][NextClassify]_vars

\* the engine as the type checker drives it; a merge call is remembered in last
\* until the caller goes on
Configure ==
  /\ last = NoCall
  /\ \/ \E callback \in Callbacks : setIsNodeSourceFileCallback(callback)
     \/ \E names \in SeqsUpTo({name_fs}, 1) : setNodeBuiltInModuleNames(names)
  /\ UNCHANGED <<calls, iters, last, npm>>

Merge ==
  \E node \in Nodes, source \in SourceTables, unidirectional \in {"omitted", "true", "false"} :
    /\ last = NoCall
    /\ mergeGlobalSymbolTable(node, source, unidirectional)
    /\ last' = [op |-> "merge", node |-> node, source |-> source,
                unidirectional |-> unidirectional, before |-> Tables]
    /\ UNCHANGED <<calls, iters, npm>>

Mutate ==
  /\ last = NoCall
  /\ \/ \E which \in {"nodeGlobals", "globals"}, id \in TableIds, symbol \in Symbols :
          SymbolTable_set(which, id, symbol)
     \/ \E which \in {"nodeGlobals", "globals"}, id \in TableIds :
          SymbolTable_delete(which, id)
  /\ UNCHANGED <<calls, iters, last, npm>>

Return ==
  /\ last # NoCall
  /\ last' = NoCall
  /\ UNCHANGED <<progVars, calls, iters, npm>>

Next == Configure \/ Merge \/ Mutate \/ Return

Spec == Init /\ [][Next]_vars

\* the same without writes to the tables other than mergeGlobalSymbolTable's
NextMergeOnly == Configure \/ Merge \/ Return

SpecMergeOnly == Init /\ [][NextMergeOnly]_vars

\* merges with the built-in names set once, before the first merge
FixNames ==
  \E names \in SeqsUpTo({name_fs}, 1) :
    /\ last = NoCall
    /\ calls = <<>>
    /\ nodeGlobals = <<>>
    /\ globals = <<>>
    /\ setNodeBuiltInModuleNames(names)
    /\ calls' = <<names>>
    /\ UNCHANGED <<iters, last, npm>>

InstallCallback ==
  \E callback \in Callbacks :
    /\ last = NoCall
    /\ setIsNodeSourceFileCallback(callback)
    /\ UNCHANGED <<calls, iters, last, npm>>

NextFixedNames == FixNames \/ InstallCallback \/ Merge \/ Return

SpecFixedNames == Init /\ [][NextFixedNames]_vars

\* enumeration of tables that stay as they are while they are enumerated
InitEnum ==
  /\ nodeGlobals \in EnumTables("nodeGlobals")
  /\ globals \in EnumTables("globals")
  /\ isNodeSourceFile = DefaultCallback
  /\ nodeBuiltInModuleNames = {}
  /\ calls = <<>>
  /\ iters = <<>>
  /\ last = NoCall
  /\ npm = NoText

Enumerate ==
  \/ \E transform \in {"entries", "keys", "values"} :
       /\ Len(iters) < MaxIters
       /\ combinedGlobals_entries(transform)
       /\ UNCHANGED <<calls, last, npm>>
  \/ \E i \in DOMAIN iters : Iterator_next(i) /\ UNCHANGED <<calls, last, npm>>

\* for (... of combinedGlobals): the view's Symbol.iterator
Iterate ==
  /\ Len(iters) < MaxIters
  /\ combinedGlobals_iterator
  /\ UNCHANGED <<calls, last, npm>>

\* combinedGlobals.forEach(action); the calls of action are remembered in last
ForEach ==
  /\ last = NoCall
  /\ last' = [op |-> "forEach", before |-> Tables, actionCalls |-> combinedGlobals_forEach(Tables)]
  /\ UNCHANGED <<progVars, calls, iters, npm>>

NextEnum == Enumerate \/ Iterate \/ ForEach \/ Return

SpecEnum == InitEnum /\ [][NextEnum]_vars

\* entries() called again and again on tables that stay as they are
Restart ==
  /\ Len(iters) < MaxRestarts
  /\ combinedGlobals_entries("entries")
  /\ UNCHANGED <<calls, last, npm>>

Advance == \E i \in DOMAIN iters : Iterator_next(i) /\ UNCHANGED <<calls, last, npm>>

NextRestart == Restart \/ Advance

SpecRestart == InitEnum /\ [][NextRestart]_vars

\* the two parse functions, each called once on a text
InitParse ==
  /\ nodeGlobals = <<>>
  /\ globals = <<>>
  /\ isNodeSourceFile = DefaultCallback
  /\ nodeBuiltInModuleNames = {}
  /\ calls = <<>>
  /\ iters = <<>>
  /\ last = NoCall
  /\ npm \in {[text |-> text, parse |-> NotCalled, tryParse |-> NotCalled] : text \in Texts}

Parse ==
  /\ npm.parse = NotCalled
  /\ npm' = [npm EXCEPT !.parse = parseNpmPackageReference(npm.text)]
  /\ UNCHANGED <<progVars, calls, iters, last>>

TryParse ==
  /\ npm.tryParse = NotCalled
  /\ npm' = [npm EXCEPT !.tryParse = tryParseNpmPackageReference(npm.text)]
  /\ UNCHANGED <<progVars, calls, iters, last>>

NextParse == Parse \/ TryParse

SpecParse == InitParse /\ [][NextParse]_vars

\* writes through the view, on tables of any content; the call is remembered in
\* last, with the tables it found and the value it returned
PassThroughCalls ==
  {<<"set", <<id, symbol>>>> : id \in EnumIds, symbol \in ViewSymbols}
    \cup {<<"delete", <<id>>>> : id \in EnumIds}
    \cup {<<"clear", <<>>>>}

PassThrough ==
  \E call \in PassThroughCalls :
    /\ last = NoCall
    /\ combinedGlobals_call(call[1], call[2])
    /\ last' = [op |-> "view", prop |-> call[1], args |-> call[2], before |-> Tables,
                returned |-> combinedGlobals_default(call[1], "combinedGlobals", call[2]).returned]
    /\ UNCHANGED <<calls, iters, npm>>

NextView == PassThrough \/ Return

SpecView == InitEnum /\ [][NextView]_vars

----------------------------------------------------------------------------
(* Claims about the classifier and its configuration *)

\* id without its first and last character
Unquoted(id) == SubSeq(id, 2, Len(id) - 1)

NodeColon == <<"n", "o", "d", "e", ":">>

\* the ambient identifier "node:<name>", quotes included
QuotedNodeId(name) == <<Q>> \o NodeColon \o name \o <<Q>>

\* C7: getGlobalsForName is total and returns, for an ambient id, globals when
\* the unquoted text is "node:" followed by exactly a member of the built-in
\* set and nodeGlobals otherwise; for any other id, nodeGlobals when the id is
\* in nodeOnlyGlobalNames and globals otherwise.
C7_Classifier ==
  \A id \in ClassifyIds :
    /\ getGlobalsForName(id) \in {"nodeGlobals", "globals"}
    /\ ambientModuleSymbolRegex(id) =>
         (getGlobalsForName(id) = "globals"
            <=> \E name \in nodeBuiltInModuleNames : Unquoted(id) = NodeColon \o name)
    /\ ~ambientModuleSymbolRegex(id) =>
         (getGlobalsForName(id) = "nodeGlobals" <=> id \in nodeOnlyGlobalNames)
    /\ (\E name \in nodeBuiltInModuleNames : id = QuotedNodeId(name))
         => getGlobalsForName(id) = "globals"

C7_Witness ==
  /\ nodeBuiltInModuleNames = {name_fs}
  /\ getGlobalsForName(id_quotedNodeFs) = "globals"
  /\ getGlobalsForName(id_quotedNodeFS) = "nodeGlobals"
  /\ getGlobalsForName(id_quotedFs) = "nodeGlobals"
  /\ getGlobalsForName(id_Buffer) = "nodeGlobals"
  /\ getGlobalsForName(id_Array) = "globals"

\* C8: under both classifiers Buffer, process and require go to nodeGlobals,
\* and Array, Object and every typed-array constructor name go to globals.
C8_CalibrationNames ==
  /\ \A id \in {id_Buffer, id_process, id_require} :
       /\ getGlobalsForName(id) = "nodeGlobals"
       /\ DenoContext_getGlobalsForName(id) = "nodeGlobals"
  /\ \A id \in {id_Array, id_Object} \cup TypedArrayNames :
       /\ getGlobalsForName(id) = "globals"
       /\ DenoContext_getGlobalsForName(id) = "globals"

\* C9: the built-in set is the set of the last call's names alone (empty
\* before the first call), and "node:<name>" classifies Default iff <name> is
\* in that last call.
C9_ReplacedWholesale ==
  LET lastNames == IF calls = <<>> THEN {} ELSE Range(calls[Len(calls)])
  IN /\ nodeBuiltInModuleNames = lastNames
     /\ \A name \in BuiltInNameChoices :
          getGlobalsForName(QuotedNodeId(name))
            = IF name \in lastNames THEN "globals" ELSE "nodeGlobals"

C9_Witness ==
  /\ Len(calls) = 2
  /\ name_fs \in Range(calls[1])
  /\ name_fs \notin Range(calls[2])
  /\ calls[2] # <<>>
  /\ getGlobalsForName(id_quotedNodeFs) = "nodeGlobals"

----------------------------------------------------------------------------
(* Claims about the combined view *)

\* the identifiers looked up: those the tables can hold and one they never hold
LookupIds == TableIds \cup {id_process}

\* the symbol of the entry of table whose identifier is id
ValueAt(table, id) == (CHOOSE e \in Range(table) : e[1] = id)[2]

\* C1: has(id) is true iff id is a key of nodeGlobals or of globals, and
\* get(id) is nodeGlobals' value when nodeGlobals has id, else globals' value
\* when globals has id, else absent; both read the tables as they are now.
C1_LiveLookup ==
  \A id \in LookupIds :
    /\ combinedGlobals_has(id) <=> (id \in Keys(nodeGlobals) \/ id \in Keys(globals))
    /\ combinedGlobals_get(id) =
         IF id \in Keys(nodeGlobals) THEN ValueAt(nodeGlobals, id)
         ELSE IF id \in Keys(globals) THEN ValueAt(globals, id)
         ELSE Undefined

C1_Witness ==
  /\ id_Buffer \in Keys(nodeGlobals) \cap Keys(globals)
  /\ ValueAt(nodeGlobals, id_Buffer) # ValueAt(globals, id_Buffer)
  /\ combinedGlobals_get(id_Buffer) = ValueAt(nodeGlobals, id_Buffer)
  /\ id_quotedNodeFs \in Keys(globals) \ Keys(nodeGlobals)
  /\ combinedGlobals_get(id_quotedNodeFs) = ValueAt(globals, id_quotedNodeFs)
  /\ ~combinedGlobals_has(id_process)

\* entries of nodeGlobals in its order, then the entries of globals, in its
\* order, whose identifier nodeGlobals does not have
ExpectedEntries ==
  nodeGlobals \o SelectSeq(globals, LAMBDA e : e[1] \notin Keys(nodeGlobals))

Project(transform, entries) ==
  [i \in 1..Len(entries) |-> CASE transform = "entries" -> entries[i]
                               [] transform = "keys" -> entries[i][1]
                               [] transform = "values" -> entries[i][2]]

\* C2: a fully consumed entries() yields nodeGlobals' entries in order, then
\* the entries of globals not keyed in nodeGlobals, in order; each identifier
\* of the union once, a shared one with nodeGlobals' value; keys() and
\* values() yield the components of that sequence.
C2_EntriesOrder ==
  \A i \in DOMAIN iters :
    iters[i].done =>
      /\ iters[i].yielded = Project(iters[i].gen.transform, ExpectedEntries)
      /\ iters[i].gen.transform = "entries" =>
           LET out == iters[i].yielded
           IN /\ \A j, k \in 1..Len(out) : out[j][1] = out[k][1] => j = k
              /\ {out[j][1] : j \in 1..Len(out)} = Keys(nodeGlobals) \cup Keys(globals)
              /\ \A j \in 1..Len(out) :
                   out[j][1] \in Keys(nodeGlobals) => out[j][2] = ValueAt(nodeGlobals, out[j][1])

C2_Witness ==
  /\ nodeGlobals = <<<<id_Buffer, SymbolOf("nodeGlobals", id_Buffer)>>>>
  /\ globals = <<<<id_Buffer, SymbolOf("globals", id_Buffer)>>,
                 <<id_Array, SymbolOf("globals", id_Array)>>>>
  /\ Len(iters) = 1
  /\ iters[1].done
  /\ iters[1].gen.transform = "entries"
  /\ iters[1].yielded = <<<<id_Buffer, SymbolOf("nodeGlobals", id_Buffer)>>,
                          <<id_Array, SymbolOf("globals", id_Array)>>>>

\* C3: size is the number of distinct identifiers of the two tables, an
\* identifier in both counted once, and the number of identifiers has(id)
\* is true for.
C3_SizeCountsUnion ==
  /\ combinedGlobals_size = Cardinality(Keys(nodeGlobals) \cup Keys(globals))
  /\ combinedGlobals_size = Cardinality(Keys(nodeGlobals)) + Cardinality(Keys(globals))
                              - Cardinality(Keys(nodeGlobals) \cap Keys(globals))
  /\ combinedGlobals_size = Cardinality({id \in LookupIds : combinedGlobals_has(id)})

C3_Witness ==
  /\ Len(nodeGlobals) = 2
  /\ Len(globals) = 2
  /\ combinedGlobals_size = 2

----------------------------------------------------------------------------
(* Claims about mergeGlobalSymbolTable *)

\* the injected predicate says the node's source unit is of the alternate runtime
SourceUnitIsAlternate(node) ==
  LET sourceFile == getSourceFileOfNode(node)
  IN sourceFile # UndefinedNode /\ isNodeSourceFile.answer[sourceFile]

\* the call in last changed the entry of id in the table which
Written(which, id) == MapGet(Tables[which], id) # MapGet(last.before[which], id)

Untouched(which, id) == MapGet(Tables[which], id) = MapGet(last.before[which], id)

\* the table the claims say an identifier of the call in last goes to
Destination(id) ==
  IF SourceUnitIsAlternate(last.node) /\ getGlobalsForName(id) = "nodeGlobals"
  THEN "nodeGlobals" ELSE "globals"

Other(which) == IF which = "nodeGlobals" THEN "globals" ELSE "nodeGlobals"

\* C4: every (id, symbol) of the source is written to nodeGlobals iff the
\* node's source unit is of the alternate runtime and getGlobalsForName(id) is
\* nodeGlobals, and to globals otherwise; a call from outside the alternate
\* runtime writes to globals only.
C4_Routing ==
  last.op = "merge" =>
    /\ \A i \in 1..Len(last.source) :
         LET id == last.source[i][1]
         IN /\ Written(Destination(id), id)
            /\ Untouched(Other(Destination(id)), id)
    /\ ~SourceUnitIsAlternate(last.node) => nodeGlobals = last.before.nodeGlobals

C4_Witness ==
  /\ last.op = "merge"
  /\ SourceUnitIsAlternate(last.node)
  /\ Len(last.source) = 2
  /\ Written("nodeGlobals", id_Buffer)
  /\ Written("globals", id_quotedNodeFs)

\* C5: where the destination table had an entry for id, it now holds
\* mergeSymbol(existing, incoming, unidirectional), unidirectional being false
\* when omitted; where it had none, it holds the incoming symbol itself and
\* mergeSymbol was not called.
C5_MergeOrInsert ==
  last.op = "merge" =>
    LET unidirectional == (last.unidirectional = "true")
        existing(i) == MapGet(last.before[Destination(last.source[i][1])], last.source[i][1])
    IN /\ \A i \in 1..Len(last.source) :
            LET id == last.source[i][1]
                incoming == last.source[i][2]
            IN MapGet(Tables[Destination(id)], id) =
                 IF existing(i) # Undefined
                 THEN <<"merge", existing(i), incoming, unidirectional>>
                 ELSE incoming
       /\ MergesIn(nodeGlobals) + MergesIn(globals) =
            MergesIn(last.before.nodeGlobals) + MergesIn(last.before.globals)
              + Cardinality({i \in 1..Len(last.source) : existing(i) # Undefined})

C5_Witness ==
  /\ last.op = "merge"
  /\ last.unidirectional = "omitted"
  /\ last.source = <<<<id_Buffer, Sym(2)>>, <<id_quotedNodeFs, Sym(2)>>>>
  /\ MapGet(last.before.globals, id_Buffer) = Sym(1)
  /\ MapGet(globals, id_Buffer) = <<"merge", Sym(1), Sym(2), FALSE>>
  /\ ~MapHas(last.before.globals, id_quotedNodeFs)
  /\ MapGet(globals, id_quotedNodeFs) = Sym(2)

\* the call in last is mergeGlobalSymbolTable(node of an alternate-runtime
\* unit, {a: S1, b: S2}) with a classified Alternate and b classified Default
SplitCall(a, b) ==
  /\ last.op = "merge"
  /\ SourceUnitIsAlternate(last.node)
  /\ Len(last.source) = 2
  /\ {last.source[1][1], last.source[2][1]} = {a, b}
  /\ a # b
  /\ getGlobalsForName(a) = "nodeGlobals"
  /\ getGlobalsForName(b) = "globals"

IncomingOf(id) == ValueAt(last.source, id)

\* the table which holds for id the incoming symbol or its merge with the prior entry
HoldsIncoming(which, id) ==
  LET prior == MapGet(last.before[which], id)
      now == MapGet(Tables[which], id)
  IN IF prior = Undefined
     THEN now = IncomingOf(id)
     ELSE now = mergeSymbol(prior, IncomingOf(id), last.unidirectional = "true")

\* C6 as stated: after the call nodeGlobals holds a, globals holds b, and
\* nodeGlobals has no entry for b and globals none for a.
C6_NeitherHasOthersKey ==
  \A a, b \in TableIds :
    SplitCall(a, b) =>
      /\ HoldsIncoming("nodeGlobals", a)
      /\ HoldsIncoming("globals", b)
      /\ ~MapHas(nodeGlobals, b)
      /\ ~MapHas(globals, a)

\* C6 amended: after the call nodeGlobals holds a, globals holds b, and the
\* call leaves the entry of b in nodeGlobals and the entry of a in globals as
\* they were: absent if they were absent before the call.
C6_SplitByClass ==
  \A a, b \in TableIds :
    SplitCall(a, b) =>
      /\ HoldsIncoming("nodeGlobals", a)
      /\ HoldsIncoming("globals", b)
      /\ Untouched("nodeGlobals", b)
      /\ Untouched("globals", a)
      /\ (last.before.nodeGlobals = <<>> /\ last.before.globals = <<>>)
           => (~MapHas(nodeGlobals, b) /\ ~MapHas(globals, a))

C6_Witness ==
  /\ SplitCall(id_Buffer, id_quotedNodeFs)
  /\ MapHas(last.before.nodeGlobals, id_Buffer)
  /\ ~MapHas(last.before.globals, id_quotedNodeFs)
  /\ ~MapHas(last.before.nodeGlobals, id_quotedNodeFs)
  /\ ~MapHas(last.before.globals, id_Buffer)
  /\ Keys(nodeGlobals) = {id_Buffer}
  /\ Keys(globals) = {id_quotedNodeFs}

\* C10: while isNodeSourceFile is still the initial () => false, merges leave
\* nodeGlobals empty and write every entry to globals, so the view's has, get,
\* size and entries are those of globals; hasNodeSourceFile(undefined) is
\* false whatever the predicate.
C10_UnconfiguredAllDefault ==
  /\ hasNodeSourceFile(UndefinedNode) = FALSE
  /\ ~isNodeSourceFile.configured =>
       /\ nodeGlobals = <<>>
       /\ last.op = "merge" =>
            \A i \in 1..Len(last.source) : Written("globals", last.source[i][1])
       /\ \A id \in LookupIds :
            /\ combinedGlobals_has(id) = MapHas(globals, id)
            /\ combinedGlobals_get(id) = MapGet(globals, id)
       /\ combinedGlobals_size = Len(globals)
       /\ Drain(getEntries("entries"), Tables) = globals

C10_Witness ==
  /\ ~isNodeSourceFile.configured
  /\ last.op = "merge"
  /\ last.node = "node.d.ts"
  /\ Keys(last.source) = {id_Buffer, id_quotedNodeFs}
  /\ nodeBuiltInModuleNames = {}
  /\ nodeGlobals = <<>>
  /\ Keys(globals) = {id_Buffer, id_quotedNodeFs}

----------------------------------------------------------------------------
(* Claims about the operations the view passes through *)

\* the call in last as made on the Default table itself
Direct == Map_apply(last.before, "globals", last.prop, last.args)

\* C11: set(id, v), delete(id) and clear() on the view change globals and
\* return exactly as the same call on globals itself does, and leave
\* nodeGlobals as it was; so after set the view's get(id) is still
\* nodeGlobals' symbol when nodeGlobals has id, and after delete or clear the
\* view still has every id of nodeGlobals.
C11_PassThrough ==
  last.op = "view" =>
    /\ globals = Direct.tabs.globals
    /\ last.returned = Direct.returned
    /\ nodeGlobals = last.before.nodeGlobals
    /\ last.prop = "set" =>
         /\ MapGet(globals, last.args[1]) = last.args[2]
         /\ last.returned = <<"ref", "globals">>
         /\ \A id \in EnumIds \ {last.args[1]} :
              MapGet(globals, id) = MapGet(last.before.globals, id)
    /\ last.prop = "delete" =>
         /\ ~MapHas(globals, last.args[1])
         /\ last.returned =
              <<"boolean", IF last.args[1] \in Keys(last.before.globals) THEN "true" ELSE "false">>
         /\ \A id \in EnumIds \ {last.args[1]} :
              MapGet(globals, id) = MapGet(last.before.globals, id)
    /\ last.prop = "clear" => (globals = <<>> /\ last.returned = Undefined)

C11_Witness ==
  /\ last.op = "view"
  /\ last.prop = "delete"
  /\ last.args = <<id_Buffer>>
  /\ last.returned = <<"boolean", "true">>
  /\ MapHas(last.before.globals, id_Buffer)
  /\ ~MapHas(globals, id_Buffer)
  /\ MapHas(nodeGlobals, id_Buffer)
  /\ combinedGlobals_has(id_Buffer)

----------------------------------------------------------------------------
(* Claims about the tables after any sequence of merges *)

\* id is "node:<name>", quoted, for a configured built-in module name
ConfiguredBuiltIn(id) == \E name \in nodeBuiltInModuleNames : id = QuotedNodeId(name)

\* C17: with the built-in names fixed before the first merge, every identifier
\* of nodeGlobals is one getGlobalsForName routes to nodeGlobals: an ambient
\* module identifier that is not a configured "node:<builtin>", or a member of
\* nodeOnlyGlobalNames.
C17_AlternateHoldsAlternateOnly ==
  \A id \in Keys(nodeGlobals) :
    /\ getGlobalsForName(id) = "nodeGlobals"
    /\ \/ ambientModuleSymbolRegex(id) /\ ~ConfiguredBuiltIn(id)
       \/ id \in nodeOnlyGlobalNames

C17_Witness ==
  /\ nodeBuiltInModuleNames = {name_fs}
  /\ last.op = "merge"
  /\ SourceUnitIsAlternate(last.node)
  /\ Keys(last.source) = {id_Buffer, id_quotedNodeFs}
  /\ Keys(nodeGlobals) = {id_Buffer}
  /\ Keys(globals) = {id_Buffer, id_quotedNodeFs}

\* C18: a merge call leaves the entry of every identifier that is not a key
\* of the source as it was in both tables; for a key of the source it writes
\* the entry in exactly one table and leaves the other table's entry as it
\* was; it removes no key from either table, and afterwards the view has
\* every identifier of the source.
C18_MergeFrame ==
  last.op = "merge" =>
    /\ \A id \in LookupIds \ Keys(last.source) :
         Untouched("nodeGlobals", id) /\ Untouched("globals", id)
    /\ \A id \in Keys(last.source) :
         /\ Written("nodeGlobals", id) # Written("globals", id)
         /\ combinedGlobals_has(id)
    /\ Keys(last.before.nodeGlobals) \subseteq Keys(nodeGlobals)
    /\ Keys(last.before.globals) \subseteq Keys(globals)

C18_Witness ==
  /\ last.op = "merge"
  /\ SourceUnitIsAlternate(last.node)
  /\ Keys(last.source) = {id_Buffer}
  /\ Keys(last.before.globals) = {id_Buffer, id_quotedNodeFs}
  /\ Keys(last.before.nodeGlobals) = {id_quotedNodeFs}
  /\ Written("nodeGlobals", id_Buffer)
  /\ Untouched("globals", id_Buffer)
  /\ Keys(nodeGlobals) = {id_Buffer, id_quotedNodeFs}

----------------------------------------------------------------------------
(* Claims about iteration *)

\* what a fully consumed entries() called in this state yields
EntriesSequence == Drain(getEntries("entries"), Tables)

IsPrefix(a, b) == Len(a) <= Len(b) /\ a = SubSeq(b, 1, Len(a))

\* C15: the iterator of Symbol.iterator yields the (identifier, symbol) entries
\* entries() yields in the same state, in the same order, and forEach calls
\* its action with the symbol and identifier of exactly those entries in that
\* order, and returns.
C15_IterationMatchesEntries ==
  /\ \A i \in DOMAIN iters :
       iters[i].kind = "array" =>
         /\ iters[i].array = EntriesSequence
         /\ IsPrefix(iters[i].yielded, EntriesSequence)
         /\ iters[i].done => iters[i].yielded = EntriesSequence
  /\ last.op = "forEach" =>
       /\ Len(last.actionCalls) = Len(EntriesSequence)
       /\ \A k \in 1..Len(last.actionCalls) :
            /\ last.actionCalls[k][1] = EntriesSequence[k][2]
            /\ last.actionCalls[k][2] = EntriesSequence[k][1]
  /\ EntriesSequence = ExpectedEntries

C15_Witness ==
  /\ nodeGlobals = <<<<id_Buffer, SymbolOf("nodeGlobals", id_Buffer)>>>>
  /\ globals = <<<<id_Buffer, SymbolOf("globals", id_Buffer)>>,
                 <<id_Array, SymbolOf("globals", id_Array)>>>>
  /\ Len(iters) = 1
  /\ iters[1].kind = "array"
  /\ iters[1].done
  /\ iters[1].yielded = <<<<id_Buffer, SymbolOf("nodeGlobals", id_Buffer)>>,
                          <<id_Array, SymbolOf("globals", id_Array)>>>>
  /\ last.op = "forEach"
  /\ last.actionCalls = <<<<SymbolOf("nodeGlobals", id_Buffer), id_Buffer>>,
                          <<SymbolOf("globals", id_Array), id_Array>>>>

\* C16: every entries() on unchanged tables yields the same sequence however
\* far the sequences obtained before have been consumed: of two sequences one
\* is a prefix of the other and two consumed to the end are equal; each has
\* its own found keys and position; a sequence consumed to the end answers
\* every later request with done and yields nothing more.
C16_RestartableOneShot ==
  /\ \A i, j \in DOMAIN iters :
       /\ IsPrefix(iters[i].yielded, iters[j].yielded)
            \/ IsPrefix(iters[j].yielded, iters[i].yielded)
       /\ (iters[i].done /\ iters[j].done) => iters[i].yielded = iters[j].yielded
  /\ \A i \in DOMAIN iters :
       /\ IsPrefix(iters[i].yielded, EntriesSequence)
       /\ iters[i].gen.foundKeys \subseteq {iters[i].yielded[k][1] : k \in 1..Len(iters[i].yielded)}
       /\ iters[i].done =>
            /\ iters[i].yielded = EntriesSequence
            /\ GeneratorNext(iters[i].gen, Tables).done
            /\ GeneratorNext(iters[i].gen, Tables).gen = iters[i].gen

C16_Witness ==
  /\ Len(iters) = 2
  /\ ~iters[1].done
  /\ Len(iters[1].yielded) = 1
  /\ iters[2].done
  /\ iters[2].doneAnswers = 2
  /\ Len(iters[2].yielded) = 2
  /\ Keys(nodeGlobals) \cap Keys(globals) # {}

----------------------------------------------------------------------------
(* Claims about package references *)

\* the text without "npm:" and without one "/" that follows it
Body(text) ==
  LET rest == SubSeq(text, Len(NpmPrefix) + 1, Len(text))
  IN IF rest # <<>> /\ rest[1] = "/" THEN Tail(rest) ELSE rest

Free(str, chars) == \A i \in 1..Len(str) : str[i] \notin chars

\* NAME: one non-empty segment without "@" and "/", or "@" scope "/" pkg
WellFormedName(n) ==
  \/ n # <<>> /\ Free(n, {"@", "/"})
  \/ \E k \in 2..(Len(n) - 1) :
       /\ n[1] = "@"
       /\ n[k] = "/"
       /\ Free(SubSeq(n, 2, k - 1), {"/"})
       /\ Free(SubSeq(n, k + 1, Len(n)), {"@", "/"})

\* every way to read body as NAME, optional "@" VER, optional "/" SUB
Decompositions(body) ==
  {[name |-> SubSeq(body, 1, p[1]),
    versionReq |-> IF p[2] = p[1] THEN Undefined ELSE SubSeq(body, p[1] + 2, p[2]),
    subPath |-> IF p[2] = Len(body) THEN Undefined ELSE SubSeq(body, p[2] + 2, Len(body))] :
     p \in {q \in (1..Len(body)) \X (1..Len(body)) :
              /\ q[1] <= q[2]
              /\ WellFormedName(SubSeq(body, 1, q[1]))
              /\ q[2] > q[1] =>
                   (body[q[1] + 1] = "@" /\ Free(SubSeq(body, q[1] + 2, q[2]), {"@", "/"}))
              /\ q[2] < Len(body) => body[q[2] + 1] = "/"}}

Segments(text) == Split(Body(text), "/")

\* the number of segments the name takes
NameSegmentCount(text) == IF Segments(text)[1] # <<>> /\ Segments(text)[1][1] = "@" THEN 2 ELSE 1

\* the last segment of the name, as written in the text
LastNameSegment(text) == Segments(text)[NameSegmentCount(text)]

ParseReturned == npm.parse.kind = "return"

\* C12: a well-formed "npm:" [ "/" ] NAME [ "@" VER ] [ "/" SUB ] parses to
\* {name: NAME, versionReq: VER or absent, subPath: SUB or absent}; a version
\* is never split off at position 0 of the last name segment, and only an "@"
\* of the last name segment gives a versionReq, never one of SUB.
C12_Decomposes ==
  npm.parse # NotCalled =>
    /\ StartsWith(npm.text, NpmPrefix) =>
         \A d \in Decompositions(Body(npm.text)) :
           npm.parse = Returned(d.name, d.versionReq, d.subPath)
    /\ (ParseReturned /\ npm.parse.versionReq # Undefined) =>
         /\ Split(npm.parse.name, "/")[NameSegmentCount(npm.text)] # <<>>
         /\ \E i \in 2..Len(LastNameSegment(npm.text)) : LastNameSegment(npm.text)[i] = "@"
    /\ npm.text = text_lodash =>
         npm.parse = Returned(<<"l","o","d","a","s","h">>, <<"4",".","1","7",".","2","1">>, <<"f","p">>)
    /\ npm.text = text_angular =>
         npm.parse = Returned(<<"@","a","n","g","u","l","a","r","/","c","o","r","e">>, <<"1","5",".","0",".","0">>, Undefined)
    /\ npm.text = text_leftPad =>
         npm.parse = Returned(<<"l","e","f","t","-","p","a","d">>, Undefined, Undefined)

C12_Witness ==
  /\ npm.text = text_full
  /\ npm.parse = Returned(<<"@","a","/","b">>, <<"1">>, <<"c","@","d","/","e">>)
  /\ Decompositions(Body(npm.text)) # {}

\* the error kinds, by the messages of the Errors thrown
ErrorKind(completion) ==
  CASE completion.kind # "throw" -> "none"
    [] completion.message = "Not an npm specifier" -> "NotAnNpmSpecifier"
    [] completion.message = "Not a valid package" -> "InvalidPackage"
    [] completion.message = "Npm specifier did not have a name" -> "EmptyName"

\* the name of the text: its name segments, the last one cut before its last
\* "@" that is not its first character
NameOf(text) ==
  LET segment == LastNameSegment(text)
      ats == {i \in 2..Len(segment) : segment[i] = "@"}
      cut == IF ats = {} THEN segment ELSE SubSeq(segment, 1, Max(ats) - 1)
  IN Join(SubSeq(Segments(text), 1, NameSegmentCount(text) - 1) \o <<cut>>, "/")

ExpectedKind(text) ==
  IF ~StartsWith(text, NpmPrefix) THEN "NotAnNpmSpecifier"
  ELSE IF NameSegmentCount(text) = 2 /\ Len(Segments(text)) = 1 THEN "InvalidPackage"
  ELSE IF NameOf(text) = <<>> THEN "EmptyName"
  ELSE "none"

\* C13: the call throws NotAnNpmSpecifier iff the text does not start with
\* "npm:", else InvalidPackage iff the first segment starts with "@" and is the
\* only one, else EmptyName iff the name is empty; every other text parses,
\* to a name that is not empty.
C13_ErrorKinds ==
  npm.parse # NotCalled =>
    /\ ErrorKind(npm.parse) = ExpectedKind(npm.text)
    /\ ParseReturned <=> ExpectedKind(npm.text) = "none"
    /\ ParseReturned => (npm.parse.value = "object" /\ npm.parse.name # <<>>)

C13_Witness ==
  /\ npm.text = text_scope
  /\ npm.parse = Thrown("Not a valid package")

\* C14: tryParseNpmPackageReference never throws; it returns undefined exactly
\* when parseNpmPackageReference throws, and the same name, versionReq and
\* subPath when it returns.
C14_TryNeverFails ==
  /\ npm.tryParse # NotCalled => npm.tryParse.kind = "return"
  /\ (npm.tryParse # NotCalled /\ npm.parse # NotCalled) =>
       /\ npm.tryParse.value = "undefined" <=> npm.parse.kind = "throw"
       /\ ParseReturned =>
            /\ npm.tryParse.value = "object"
            /\ npm.tryParse.name = npm.parse.name
            /\ npm.tryParse.versionReq = npm.parse.versionReq
            /\ npm.tryParse.subPath = npm.parse.subPath

C14_Witness ==
  /\ npm.text = NpmPrefix \o <<"/", "/", "a">>
  /\ ErrorKind(npm.parse) = "EmptyName"
  /\ npm.tryParse = ReturnedUndefined

\* name, "@" versionReq when present, "/" subPath when present
Reconstructed(reference) ==
  reference.name
    \o (IF reference.versionReq # Undefined THEN <<"@">> \o reference.versionReq ELSE <<>>)
    \o (IF reference.subPath # Undefined THEN <<"/">> \o reference.subPath ELSE <<>>)

\* C19: where the call returns, name, "@" versionReq and "/" subPath put
\* together are the text without "npm:" and one following "/"; a version
\* separator at the end of the last name segment gives versionReq = "", and a
\* single empty segment after the name gives subPath = "".
C19_Reconstructs ==
  (npm.parse # NotCalled /\ ParseReturned) =>
    /\ Reconstructed(npm.parse) = Body(npm.text)
    /\ (Len(LastNameSegment(npm.text)) >= 2
          /\ LastNameSegment(npm.text)[Len(LastNameSegment(npm.text))] = "@")
         => npm.parse.versionReq = <<>>
    /\ Len(Segments(npm.text)) > NameSegmentCount(npm.text) <=> npm.parse.subPath # Undefined
    /\ (Len(Segments(npm.text)) = NameSegmentCount(npm.text) + 1
          /\ Segments(npm.text)[Len(Segments(npm.text))] = <<>>)
         => npm.parse.subPath = <<>>

C19_Witness ==
  /\ npm.text = NpmPrefix \o <<"a", "@", "/">>
  /\ npm.parse = Returned(<<"a">>, <<>>, <<>>)

====
